---- MODULE Spec2Model ----
(***************************************************************************)
(* Model of "Sync TRMM with GIT.py": one run is the sequence               *)
(*   git_pull -> write_modifications_to_api -> fetch/process scripts ->    *)
(*   fetch/process snippets -> delete_obsolete_files -> git_push -> report *)
(* over a working directory (four folders), a git repository (HEAD, index, *)
(* origin/master) and the remote script store reached through the API.     *)
(*                                                                         *)
(* Text is modelled as a sequence of one-character strings, so that the    *)
(* file-name operations of the code (sanitising, suffixes, stems, the      *)
(* "<digits> - " prefix, lower-casing) are computed and not assumed.       *)
(* A JSON object / Python dict is a function from key strings to values.   *)
(***************************************************************************)
EXTENDS Integers, Sequences, FiniteSets, TLC

\* ---------------------------------------------------------------- bounds
MaxScripts == 2      \* scripts in the remote store
MaxRuns == 2         \* invocations of main() in one behaviour
MaxEvents == 1       \* failing external calls + changes made between runs

\* ------------------------------------------------------------------ text
Digits == <<"0", "1", "2", "3", "4", "5", "6", "7", "8", "9">>
Upper == <<"A", "B", "C", "D", "E", "F", "G", "H", "I", "J", "K", "L", "M",
           "N", "O", "P", "Q", "R", "S", "T", "U", "V", "W", "X", "Y", "Z">>
Lower == <<"a", "b", "c", "d", "e", "f", "g", "h", "i", "j", "k", "l", "m",
           "n", "o", "p", "q", "r", "s", "t", "u", "v", "w", "x", "y", "z">>

IndexIn(seq, c) == IF \E i \in DOMAIN seq : seq[i] = c
                   THEN CHOOSE i \in DOMAIN seq : seq[i] = c
                   ELSE 0

IsDigit(c) == IndexIn(Digits, c) # 0

\* str.lower() on one character, then on a string
LowerChar(c) == IF IndexIn(Upper, c) # 0 THEN Lower[IndexIn(Upper, c)] ELSE c
ToLower(s) == [i \in DOMAIN s |-> LowerChar(s[i])]

\* str(int) for a non-negative integer
RECURSIVE IntStr(_)
IntStr(n) == IF n < 10 THEN <<Digits[n + 1]>>
             ELSE IntStr(n \div 10) \o <<Digits[(n % 10) + 1]>>

\* pathvalidate.sanitize_filename: characters that are invalid in a file
\* name are removed
InvalidChars == {"/", "\\", ":", "*", "?", "\"", "<", ">", "|"}
KeepValid(c) == c \notin InvalidChars
sanitize_filename(s) == SelectSeq(s, KeepValid)

\* PurePath.stem: the name without its last suffix
LastDot(s) == IF \E i \in DOMAIN s : s[i] = "."
              THEN CHOOSE i \in DOMAIN s :
                     s[i] = "." /\ \A j \in DOMAIN s : s[j] = "." => j <= i
              ELSE 0
Stem(s) == IF LastDot(s) > 1 /\ LastDot(s) < Len(s)
           THEN SubSeq(s, 1, LastDot(s) - 1) ELSE s

\* re.sub(r'^\d+ - ', '', s)
LeadingDigits(s) ==
    IF s = <<>> \/ ~IsDigit(s[1]) THEN 0
    ELSE CHOOSE k \in 1..Len(s) :
           /\ \A i \in 1..k : IsDigit(s[i])
           /\ (k < Len(s) => ~IsDigit(s[k + 1]))
Sep == <<" ", "-", " ">>
StripIdPrefix(s) ==
    LET k == LeadingDigits(s)
    IN IF k > 0 /\ Len(s) >= k + 3 /\ SubSeq(s, k + 1, k + 3) = Sep
       THEN SubSeq(s, k + 4, Len(s)) ELSE s

\* ------------------------------------------------------------------ dict
HasKey(d, k) == k \in DOMAIN d
\* {**a, **b}: the keys of b win
Merge(a, b) == [k \in (DOMAIN a) \cup (DOMAIN b) |->
                  IF k \in DOMAIN b THEN b[k] ELSE a[k]]
\* d with key k removed (dict.pop)
Without(d, k) == [j \in (DOMAIN d) \ {k} |-> d[j]]
EmptyDict == [k \in {} |-> 0]

\* sha256 of a byte string: equal digests exactly for equal contents
Sha256(bytes) == <<"sha256", bytes>>
\* json.dumps(obj) written to a file, json.load reading it back
JsonDumps(obj) == [json |-> obj]
JsonLoad(text) == text.json

\* ----------------------------------------------------------------- trees
\* A file is named by <<root, category folder, file name>>; the category
\* folder is <<>> for a file directly under the root.  A tree maps the
\* paths of its files to their contents.
Roots == {"scripts", "scriptsraw", "snippets", "snippetsraw"}
EmptyTree == [p \in {} |-> 0]
Put(t, p, c) == [q \in (DOMAIN t) \cup {p} |-> IF q = p THEN c ELSE t[q]]
Remove(t, ps) == [q \in (DOMAIN t) \ ps |-> t[q]]
Under(t, root) == {p \in DOMAIN t : p[1] = root}
RelativeTo(p) == <<p[2], p[3]>>
\* the category folders that hold at least one file of the tree
ParentDirs(t) == {<<p[1], p[2]>> : p \in {q \in DOMAIN t : q[2] # <<>>}}

\* ---------------------------------------------------------- remote store
\* script bodies: distinct texts
CodeOf(i) == <<"body of script", i>>
EditedCode == <<"body edited in git", 0>>
ChangedCode == <<"body changed in the store", 0>>
SummaryCode == <<"body in the summary", 0>>
SnippetCode == <<"body of snippet", 0>>

\* what a script can be: its name, its category, its shell when it has
\* one, and a body in the summary record when the list call returns one
ScriptPool ==
    << [name |-> <<"a">>, category |-> <<>>, shell |-> "powershell"],
       [name |-> <<"a">>, category |-> <<"c">>, shell |-> "shell"],
       [name |-> <<"A", "/">>, category |-> <<>>, shell |-> "python"],
       [name |-> <<"b">>, category |-> <<>>, shell |-> "cmd"],
       [name |-> <<"b">>, category |-> <<>>, code |-> SummaryCode] >>

\* one record of GET /scripts/ (the summary of a script)
Summary(i, d, type) == Merge(d, [id |-> i, script_type |-> type])
\* the payload of GET /scripts/{id}/download/
Detail(code) == [code |-> code]
\* the records of GET /scripts/snippets/
SnippetList ==
    << [id |-> 1, name |-> <<"a">>, shell |-> "powershell", code |-> SnippetCode],
       [id |-> 2, name |-> <<"n">>, shell |-> "nushell", code |-> SnippetCode],
       [id |-> 3, name |-> <<"z">>, shell |-> "zsh", code |-> SnippetCode] >>

VARIABLES
    flags,            \* ENABLE_GIT_PULL, ENABLE_GIT_PUSH, ENABLE_WRITEBACK, ENABLE_WRITETOFILE
    remote,           \* the remote store: scripts (list), code (by id), snippets (list)
    disk,             \* the files of the working directory
    dirs,             \* its category folders: <<root, folder>>
    origin,           \* the tree of origin/master
    head,             \* the tree of the local HEAD commit
    index,            \* the staged tree
    pc,               \* the stage main() is at
    run,              \* the number of this invocation of main()
    scan,             \* write_modifications_to_api: raw files still to compare
    todo,             \* process_scripts: records still to export
    current,          \* process_scripts: its local set of paths
    current_scripts,  \* main: the paths exported in this run
    shell_summary,    \* main: scripts exported per shell
    exitStatus,       \* the exit status of the process, once it ended
    events,           \* failing calls and changes between runs, so far
    puts,             \* history: the PUT requests sent, [id, payload]
    commits,          \* history: the commits made, [message, pushed]
    hist              \* history: what this run has done and seen

vars == <<flags, remote, disk, dirs, origin, head, index, pc, run, scan, todo,
          current, current_scripts, shell_summary, exitStatus, events, puts,
          commits, hist>>

Defaults == [pull |-> TRUE, push |-> TRUE, writeback |-> TRUE, writetofile |-> TRUE]
\* every flag turned off: a run that only displays what it would do
Dry == [pull |-> FALSE, push |-> FALSE, writeback |-> FALSE, writetofile |-> FALSE]
\* only the writing of files turned off
NoWrite == [pull |-> TRUE, push |-> TRUE, writeback |-> TRUE, writetofile |-> FALSE]

\* a script that ships with the server: GET /scripts/ lists it, main drops it
BuiltinSummary == [id |-> 0, name |-> <<"a">>, category |-> <<>>,
                   shell |-> "powershell", script_type |-> "builtin"]

\* the lists of MaxScripts user-defined scripts, ids 1..MaxScripts in the
\* order of the list; lists that differ only in which id has which shape
\* are taken once
ScriptLists ==
    { <<BuiltinSummary>> \o [i \in 1..MaxScripts |->
          Summary(i, ScriptPool[f[i]], "userdefined")] :
      f \in {g \in [1..MaxScripts -> DOMAIN ScriptPool] :
                \A i \in 1..(MaxScripts - 1) : g[i] <= g[i + 1]} }

\* the flags as the source sets them (lines 97-100), and as somebody who
\* wants a run without effects sets them
FlagModes == {Defaults, Dry, NoWrite}

NewHist(d, ds, p) ==
              [start |-> d,          \* the files when main() started
               folders |-> ds,       \* the category folders at that time
               prev |-> p,           \* how the run before this one ended
               listed |-> [scripts |-> <<>>, snippets |-> <<>>],
                                     \* the records the list calls returned
               drift |-> {},         \* the pairs of files found to differ
               calls |-> <<>>,       \* update_api calls: <<id, payload>>
               manifest |-> [r \in Roots |-> {}],  \* paths recorded, per root
               exported |-> {},      \* records exported: <<folder, record>>
               skipped |-> {},       \* records skipped: <<folder, record>>
               deleted |-> {},       \* files deleted by delete_obsolete_files
               pruned |-> EmptyTree, \* the files delete_obsolete_files left
               push |-> "",          \* what happened in git_push
               dirty |-> FALSE,      \* git status had something to print
               diff |-> [A |-> {}, M |-> {}, D |-> {}, R |-> {}],
                                     \* the changes git_push found to stage
               exitAt |-> "",        \* the stage the process ended in
               cause |-> ""]         \* why it ended

Init ==
    /\ flags = Defaults
    /\ \E l \in ScriptLists :
         remote = [scripts |-> l,
                   code |-> [i \in 1..MaxScripts |-> CodeOf(i)],
                   snippets |-> SnippetList]
    /\ disk = EmptyTree
    /\ dirs = {}
    /\ origin = EmptyTree
    /\ head = EmptyTree
    /\ index = EmptyTree
    /\ pc = "Pull"
    /\ run = 1
    /\ scan = {}
    /\ todo = <<>>
    /\ current = {}
    /\ current_scripts = {}
    /\ shell_summary = EmptyDict
    /\ exitStatus = 0
    /\ events = 0
    /\ puts = <<>>
    /\ commits = <<>>
    /\ hist = NewHist(EmptyTree, {}, "")

\* --------------------------------------------------------------- git_pull
\* git reset --hard: every tracked path becomes what the target commit has
\* (or disappears); untracked files the target does not name are left alone
ResetHard(wt, tracked, target) ==
    [p \in ((DOMAIN wt) \ tracked) \cup (DOMAIN target) |->
        IF p \in DOMAIN target THEN target[p] ELSE wt[p]]
\* git makes the folders of the files it writes and removes the folders it
\* empties
DirsAfterGit(ds, old, new) ==
    (ds \cup ParentDirs(new)) \ (ParentDirs(old) \ ParentDirs(new))

EndsWithJson(name) ==
    /\ Len(name) >= 5
    /\ SubSeq(name, Len(name) - 4, Len(name)) = <<".", "j", "s", "o", "n">>
\* folders['scriptsraw'].rglob('*.json')
RawJsonFiles(t) == {p \in Under(t, "scriptsraw") : EndsWithJson(p[3])}

\* sys.exit with a non-zero status, or an exception nobody catches
Abort(stage, why) ==
    /\ pc' = "Exit"
    /\ exitStatus' = 1
    /\ hist' = [hist EXCEPT !.exitAt = stage, !.cause = why]

\* the failure of git fetch or git reset is only printed
pull_failed_ignored ==
    /\ pc' = "Reconcile"
    /\ UNCHANGED <<exitStatus, hist>>

\* except subprocess.CalledProcessError: ... sys.exit(1)
pull_failed == Abort("Pull", "CalledProcessError")

git_pull ==
    /\ pc = "Pull"
    /\ IF flags.pull
       THEN \E ok \in BOOLEAN :
              IF ok
              THEN LET wt == ResetHard(disk, (DOMAIN index) \cup (DOMAIN head), origin)
                   IN /\ disk' = wt
                      /\ dirs' = DirsAfterGit(dirs, disk, wt)
                      /\ head' = origin
                      /\ index' = origin
                      /\ scan' = RawJsonFiles(wt)
                      /\ pc' = "Reconcile"
                      /\ UNCHANGED <<exitStatus, events, hist>>
              ELSE /\ events < MaxEvents
                   /\ events' = events + 1
                   /\ pull_failed
                   /\ UNCHANGED <<disk, dirs, head, index, scan>>
       ELSE /\ scan' = RawJsonFiles(disk)
            /\ pc' = "Reconcile"
            /\ UNCHANGED <<disk, dirs, head, index, exitStatus, events, hist>>
    /\ UNCHANGED <<flags, remote, origin, run, todo, current, current_scripts,
                   shell_summary, puts, commits>>

\* ----------------------------------------------- write_modifications_to_api
\* dict.get(k, default)
Get(d, k, default) == IF HasKey(d, k) THEN d[k] ELSE default

\* def update_api(script_id, payload) declares two parameters; the call in
\* write_modifications_to_api passes three arguments
UpdateApiParams == 2
UpdateApiCallArgs == 3

\* the name of the raw file is compared as it is written, not lower-cased
RawNameKeepCase(raw_path) == StripIdPrefix(Stem(raw_path[3]))

\* next(p for p in folders['scripts'].rglob('*') if p.is_file() and
\* p.stem.lower() == raw_name): the candidates; the scan order picks one
RawName(raw_path) == ToLower(StripIdPrefix(Stem(raw_path[3])))
\* the candidates are looked for under snippets/ as well
MatchesSnippetsToo(t, raw_path) ==
    {p \in Under(t, "scripts") \cup Under(t, "snippets") :
        ToLower(Stem(p[3])) = RawName(raw_path)}

Matches(t, raw_path) ==
    {p \in Under(t, "scripts") : ToLower(Stem(p[3])) = RawName(raw_path)}

\* the body of update_api up to the request
RenamedPayload(payload) ==
    Merge(Without(payload, "code"), [script_body |-> Get(payload, "code", <<>>)])

HttpOutcomes == {"200", "error status", "RequestException"}

\* one call update_api(raw_data.get('id'), updated_payload, api_token)
update_api(script_id, payload, stage, h) ==
    IF UpdateApiCallArgs # UpdateApiParams
    THEN \* TypeError, which except BrokenPipeError does not catch
         /\ pc' = "Exit"
         /\ exitStatus' = 1
         /\ hist' = [h EXCEPT !.exitAt = stage, !.cause = "TypeError",
                              !.calls = Append(@, <<script_id, payload>>)]
         /\ UNCHANGED <<puts, remote, events>>
    ELSE \E res \in HttpOutcomes :
           /\ IF res = "200" THEN events' = events
              ELSE events < MaxEvents /\ events' = events + 1
           /\ puts' = Append(puts, [run |-> run, id |-> script_id,
                                    payload |-> RenamedPayload(payload),
                                    result |-> res])
           /\ remote' = IF res = "200" /\ script_id \in DOMAIN remote.code
                        THEN [remote EXCEPT !.code[script_id] =
                                              RenamedPayload(payload).script_body]
                        ELSE remote
           /\ hist' = [h EXCEPT !.calls = Append(@, <<script_id, payload>>)]
           /\ UNCHANGED <<pc, exitStatus>>

\* one turn of the loop over folders['scriptsraw'].rglob('*.json')
compare_raw(raw_path) ==
    IF Matches(disk, raw_path) = {}
    THEN UNCHANGED <<pc, exitStatus, hist, puts, remote, events>>
    ELSE \E match \in Matches(disk, raw_path) :
           LET script_hash == Sha256(disk[match].text)
               raw_data == JsonLoad(disk[raw_path])
               code == Get(raw_data, "code", <<>>)
               code_hash == Sha256(code)
               updated_payload == Merge(raw_data, [code |-> disk[match].text])
               seen == [hist EXCEPT !.drift = @ \cup
                          {[raw |-> raw_path, file |-> match,
                            id |-> Get(raw_data, "id", 0),
                            text |-> disk[match].text,
                            snapshot |-> disk[raw_path]]}]
           IN IF script_hash = code_hash
              THEN UNCHANGED <<pc, exitStatus, hist, puts, remote, events>>
              ELSE IF flags.writeback
                   THEN update_api(Get(raw_data, "id", 0),
                                   updated_payload, "Reconcile", seen)
                   ELSE \* the payload is printed, nothing is sent
                        /\ hist' = seen
                        /\ UNCHANGED <<pc, exitStatus, puts, remote, events>>

write_modifications_to_api ==
    /\ pc = "Reconcile"
    /\ scan # {}
    /\ \E raw_path \in scan :
         /\ scan' = scan \ {raw_path}
         /\ compare_raw(raw_path)
    /\ UNCHANGED <<flags, disk, dirs, origin, head, index, run, todo, current,
                   current_scripts, shell_summary, commits>>

\* the loop is over: main goes on to fetch the scripts
reconcile_return ==
    /\ pc = "Reconcile"
    /\ scan = {}
    /\ pc' = "FetchScripts"
    /\ UNCHANGED <<flags, remote, disk, dirs, origin, head, index, run, scan,
                   todo, current, current_scripts, shell_summary, exitStatus,
                   events, puts, commits, hist>>

\* ------------------------------------------------------------- fetch_data
\* requests.get: a response that is ok, a response that is not, or an
\* exception of requests (fetch_data has no try)
FetchOutcomes == {"ok", "error status", "ConnectionError"}

\* [item for item in ... if item.get('script_type') == 'userdefined']
IsUserDefined(item) == Get(item, "script_type", "") = "userdefined"
UserDefined(list) == SelectSeq(list, IsUserDefined)

fetch_scripts ==
    /\ pc = "FetchScripts"
    /\ \E res \in FetchOutcomes :
         /\ IF res = "ok" THEN events' = events
            ELSE events < MaxEvents /\ events' = events + 1
         /\ IF res = "ConnectionError"
            THEN Abort("FetchScripts", "ConnectionError")
                 /\ UNCHANGED <<todo, current>>
            ELSE /\ todo' = IF res = "ok" THEN UserDefined(remote.scripts) ELSE <<>>
                 /\ current' = {}
                 /\ pc' = "ExportScripts"
                 /\ hist' = [hist EXCEPT !.listed.scripts = todo']
                 /\ UNCHANGED exitStatus
    /\ UNCHANGED <<flags, remote, disk, dirs, origin, head, index, run, scan,
                   current_scripts, shell_summary, puts, commits>>

fetch_snippets ==
    /\ pc = "FetchSnippets"
    /\ \E res \in FetchOutcomes :
         /\ IF res = "ok" THEN events' = events
            ELSE events < MaxEvents /\ events' = events + 1
         /\ IF res = "ConnectionError"
            THEN Abort("FetchSnippets", "ConnectionError")
                 /\ UNCHANGED <<todo, current>>
            ELSE /\ todo' = IF res = "ok" THEN remote.snippets ELSE <<>>
                 /\ current' = {}
                 /\ pc' = "ExportSnippets"
                 /\ hist' = [hist EXCEPT !.listed.snippets = todo']
                 /\ UNCHANGED exitStatus
    /\ UNCHANGED <<flags, remote, disk, dirs, origin, head, index, run, scan,
                   current_scripts, shell_summary, puts, commits>>

\* -------------------------------------------------------- process_scripts
\* str.strip(): blanks at both ends are dropped
RECURSIVE LStrip(_)
LStrip(s) == IF s # <<>> /\ Head(s) = " " THEN LStrip(Tail(s)) ELSE s
RECURSIVE RStrip(_)
RStrip(s) == IF s # <<>> /\ s[Len(s)] = " "
             THEN RStrip(SubSeq(s, 1, Len(s) - 1)) ELSE s
Strip(s) == RStrip(LStrip(s))

None == "None"
NoneStr == <<"N", "o", "n", "e">>
UnnamedScript == <<"U", "n", "n", "a", "m", "e", "d", " ", "S", "c", "r", "i", "p", "t">>

\* the table as it was before the other shells were added: .ps1, .py, .txt
ExtOfTwoShells(shell) ==
    CASE shell = "powershell" -> <<".", "p", "s", "1">>
      [] shell = "python"     -> <<".", "p", "y">>
      [] OTHER                -> <<".", "t", "x", "t">>

\* {'powershell': '.ps1', ...}.get(shell, '.txt')
ExtOf(shell) ==
    CASE shell = "powershell" -> <<".", "p", "s", "1">>
      [] shell = "python"     -> <<".", "p", "y">>
      [] shell = "cmd"        -> <<".", "b", "a", "t">>
      [] shell = "shell"      -> <<".", "s", "h">>
      [] shell = "nushell"    -> <<".", "n", "u">>
      [] OTHER                -> <<".", "t", "x", "t">>

\* f"{sid}": the digits of an id, "None" when the record has none
SidStr(rec) == IF HasKey(rec, "id") THEN IntStr(rec.id) ELSE NoneStr

SanitizedName(rec) == sanitize_filename(Get(rec, "name", UnnamedScript))
\* the category is not turned into a folder
CategoryFolderFlat(rec) == <<>>

\* sanitize_filename(s.get('category', '').strip()) if s.get('category') else ''
CategoryFolder(rec) ==
    IF Get(rec, "category", <<>>) # <<>>
    THEN sanitize_filename(Strip(rec.category)) ELSE <<>>
\* fname = f"{name}{ext}"
EditableName(rec) == SanitizedName(rec) \o ExtOf(Get(rec, "shell", None))
\* the raw snapshot file is named after the script alone, like the editable one
RawFileNameNoId(rec) == SanitizedName(rec) \o <<".", "j", "s", "o", "n">>

\* raw_name = f"{sid} - {name}.json"
RawFileName(rec) ==
    SidStr(rec) \o Sep \o SanitizedName(rec) \o <<".", "j", "s", "o", "n">>

\* the raw snapshot file gets the summary record alone
RawSnapshotSummaryOnly(data, rec) == rec

\* {**data, **s}: what goes into the raw snapshot file
RawSnapshot(data, rec) == Merge(data, rec)

\* the file is written whatever ENABLE_WRITETOFILE says
save_file_always(t, path, content, is_json) ==
    Put(t, path, IF is_json THEN JsonDumps(content) ELSE [text |-> content])

\* save_file: nothing is written when ENABLE_WRITETOFILE is off
save_file(t, path, content, is_json) ==
    IF flags.writetofile
    THEN Put(t, path, IF is_json THEN JsonDumps(content) ELSE [text |-> content])
    ELSE t

\* shell_summary[shell] += 1
Tally(summary, shell) ==
    [k \in (DOMAIN summary) \cup {shell} |->
        Get(summary, k, 0) + (IF k = shell THEN 1 ELSE 0)]

\* the body of the loop once the record's payload is there
export_record(rec, data, stage, script_folder, script_raw_folder, is_snippet) ==
    LET cat == CategoryFolder(rec)
        file == <<script_folder, cat, EditableName(rec)>>
        raw == <<script_raw_folder, cat, RawFileName(rec)>>
    IN IF ~HasKey(data, "code") /\ flags.writetofile
       THEN \* path.write_text(None): TypeError
            /\ Abort(stage, "TypeError")
            /\ UNCHANGED <<disk, todo, current, shell_summary>>
       ELSE /\ disk' = save_file(save_file(disk, file, Get(data, "code", None), FALSE),
                                 raw, RawSnapshot(data, rec), TRUE)
            /\ shell_summary' = IF is_snippet THEN shell_summary
                                ELSE Tally(shell_summary, Get(rec, "shell", None))
            /\ current' = current \cup {RelativeTo(file), RelativeTo(raw)}
            /\ todo' = Tail(todo)
            /\ hist' = [hist EXCEPT
                          !.manifest[script_folder] = @ \cup {RelativeTo(file)},
                          !.manifest[script_raw_folder] = @ \cup {RelativeTo(raw)},
                          !.exported = @ \cup {<<script_folder, rec, data>>}]
            /\ UNCHANGED <<pc, exitStatus>>

\* one turn of the loop "for s in scripts"
process_scripts(stage, script_folder, script_raw_folder, is_snippet) ==
    /\ pc = stage
    /\ todo # <<>>
    /\ LET rec == Head(todo)
           cat == CategoryFolder(rec)
       IN /\ dirs' = IF cat = <<>> THEN dirs
                     ELSE dirs \cup {<<script_folder, cat>>, <<script_raw_folder, cat>>}
          /\ IF is_snippet
             THEN /\ events' = events
                  /\ IF rec = EmptyDict
                     THEN /\ todo' = Tail(todo)
                          /\ hist' = [hist EXCEPT
                                       !.skipped = @ \cup {<<script_folder, rec>>}]
                          /\ UNCHANGED <<disk, current, shell_summary, pc, exitStatus>>
                     ELSE export_record(rec, rec, stage, script_folder,
                                        script_raw_folder, is_snippet)
             ELSE \E res \in FetchOutcomes :
                    /\ IF res = "ok" THEN events' = events
                       ELSE events < MaxEvents /\ events' = events + 1
                    /\ CASE res = "ok" /\ Get(rec, "id", 0) \in DOMAIN remote.code ->
                              export_record(rec, Detail(remote.code[rec.id]), stage,
                                            script_folder, script_raw_folder, is_snippet)
                         [] res = "ConnectionError" ->
                              /\ Abort(stage, "ConnectionError")
                              /\ UNCHANGED <<disk, todo, current, shell_summary>>
                         [] OTHER -> \* fetch_data returned []: "if not data: continue"
                              /\ todo' = Tail(todo)
                              /\ hist' = [hist EXCEPT
                                           !.skipped = @ \cup {<<script_folder, rec>>}]
                              /\ UNCHANGED <<disk, current, shell_summary, pc,
                                             exitStatus>>
    /\ UNCHANGED <<flags, remote, origin, head, index, run, scan, current_scripts,
                   puts, commits>>

export_scripts == process_scripts("ExportScripts", "scripts", "scriptsraw", FALSE)
export_snippets == process_scripts("ExportSnippets", "snippets", "snippetsraw", TRUE)

\* return current; current_scripts.update(...)
process_return(stage, next) ==
    /\ pc = stage
    /\ todo = <<>>
    /\ current_scripts' = current_scripts \cup current
    /\ pc' = next
    /\ UNCHANGED <<flags, remote, disk, dirs, origin, head, index, run, scan,
                   todo, current, shell_summary, exitStatus, events, puts,
                   commits, hist>>

scripts_return == process_return("ExportScripts", "FetchSnippets")
snippets_return == process_return("ExportSnippets", "Prune")

\* -------------------------------------------------- delete_obsolete_files
\* {f for f in folder.rglob('*') if f.is_file()
\*    and f.relative_to(folder) not in current_scripts}
Obsolete(t, folder, paths) == {f \in Under(t, folder) : RelativeTo(f) \notin paths}
\* the folders left without a file are removed, deepest first
EmptyDirs(ds, t, folder) == {d \in ds : d[1] = folder /\ d \notin ParentDirs(t)}

\* for folder in folders.values(): delete_obsolete_files(folder, current_scripts)
delete_obsolete_files ==
    /\ pc = "Prune"
    /\ LET gone == UNION {Obsolete(disk, folder, current_scripts) : folder \in Roots}
           left == Remove(disk, gone)
       IN /\ disk' = left
          /\ dirs' = dirs \ UNION {EmptyDirs(dirs, left, folder) : folder \in Roots}
          /\ hist' = [hist EXCEPT !.deleted = gone, !.pruned = left]
    /\ pc' = "Push"
    /\ UNCHANGED <<flags, remote, origin, head, index, run, scan, todo, current,
                   current_scripts, shell_summary, exitStatus, events, puts,
                   commits>>

\* ---------------------------------------------------------------- git_push
\* the characters of file names in the order of their codes
AsciiOrder == <<" ", "-", ".", "/">> \o Digits \o Upper \o Lower
TextLess(a, b) ==
    \E i \in 1..(Len(b)) :
      /\ \A j \in 1..(i - 1) : j <= Len(a) /\ a[j] = b[j]
      /\ \/ i > Len(a)
         \/ i <= Len(a) /\ IndexIn(AsciiOrder, a[i]) < IndexIn(AsciiOrder, b[i])

\* a path as git prints it, relative to the repository
RelText(p) == (IF p[2] # <<>> THEN p[2] \o <<"/">> ELSE <<>>) \o p[3]
PathText(p) == <<p[1], "/">> \o RelText(p)
\* "scripts/" < "scriptsraw/" < "snippets/" < "snippetsraw/"
RootRank(r) == CASE r = "scripts" -> 1 [] r = "scriptsraw" -> 2
                 [] r = "snippets" -> 3 [] OTHER -> 4
PathLess(p, q) == IF p[1] # q[1] THEN RootRank(p[1]) < RootRank(q[1])
                  ELSE TextLess(RelText(p), RelText(q))
RECURSIVE SortedPaths(_)
SortedPaths(ps) ==
    IF ps = {} THEN <<>>
    ELSE LET m == CHOOSE x \in ps : \A y \in ps \ {x} : PathLess(x, y)
         IN <<m>> \o SortedPaths(ps \ {m})

\* git diff --cached --name-status, staged tree against HEAD
Added(staged, base) == (DOMAIN staged) \ (DOMAIN base)
Deleted(staged, base) == (DOMAIN base) \ (DOMAIN staged)
Modified(staged, base) ==
    {p \in (DOMAIN staged) \cap (DOMAIN base) : staged[p] # base[p]}
\* git reports a deleted and an added path of equal content as one rename,
\* a line of three tab-separated fields
Renames(staged, base) ==
    {<<d, a>> \in Deleted(staged, base) \X Added(staged, base) :
        /\ DOMAIN base[d] = DOMAIN staged[a]
        /\ base[d] = staged[a]}

\* file.startswith("scriptsraw/")
IsSkipped(p) == p[1] = "scriptsraw"
Listed(ps) == SelectSeq(SortedPaths(ps), LAMBDA p : ~IsSkipped(p))
Texts(paths) == [i \in DOMAIN paths |-> PathText(paths[i])]

\* changes = {"created": [], "modified": [], "deleted": [], "renamed": []}
\* filled from the lines of two fields
Changes(staged, base) ==
    [created |-> Texts(Listed(Added(staged, base))),
     modified |-> Texts(Listed(Modified(staged, base))),
     deleted |-> Texts(Listed(Deleted(staged, base))),
     renamed |-> <<>>]

RECURSIVE JoinWith(_, _)
JoinWith(texts, sep) ==
    IF texts = <<>> THEN <<>>
    ELSE IF Len(texts) = 1 THEN texts[1]
    ELSE texts[1] \o sep \o JoinWith(Tail(texts), sep)

max_files == 5
FirstN(seq, n) == SubSeq(seq, 1, IF Len(seq) < n THEN Len(seq) ELSE n)
\* f"{change_type} {len(files)}: {', '.join(files[:max_files])}{'...' if ...}"
Clause(change_type, files) ==
    <<change_type, " ">> \o IntStr(Len(files)) \o <<":", " ">>
      \o JoinWith(FirstN(files, max_files), <<",", " ">>)
      \o (IF Len(files) > max_files THEN <<".", ".", ".">> ELSE <<>>)
ChangeTypes == <<"created", "modified", "deleted", "renamed">>
generate_commit_message(changes) ==
    IF \A t \in DOMAIN changes : changes[t] = <<>>
    THEN <<"Minor update">>
    ELSE JoinWith(
           [i \in 1..Len(SelectSeq(ChangeTypes, LAMBDA t : changes[t] # <<>>)) |->
              LET t == SelectSeq(ChangeTypes, LAMBDA u : changes[u] # <<>>)[i]
              IN Clause(t, changes[t])],
           <<";", " ">>)

\* what can go wrong in git_push: the first git command that fails, if any
PushOutcomes == {"ok", "rebase in progress", "detached HEAD", "status fails",
                 "add fails", "diff fails", "commit fails", "push fails"}

\* git status --porcelain prints something
HasChanges == disk # head \/ index # head

\* what git add would stage: paths added, modified and deleted against
\* HEAD, and the pairs git reports as renames
Staged(wt, base) ==
    [A |-> Added(wt, base), M |-> Modified(wt, base), D |-> Deleted(wt, base),
     R |-> Renames(wt, base)]

Logged(what) ==
    /\ pc' = "Report"
    /\ hist' = [hist EXCEPT !.push = what, !.dirty = HasChanges,
                            !.diff = Staged(disk, head)]
    /\ UNCHANGED exitStatus

\* the rebase in progress is only printed, like the failure of a git command
rebase_logged == Logged("rebase in progress")

\* if rebase_in_progress: sys.exit("Rebase in progress. Complete or abort it.")
rebase_in_progress ==
    /\ pc' = "Exit"
    /\ exitStatus' = 1
    /\ hist' = [hist EXCEPT !.exitAt = "Push", !.cause = "SystemExit",
                            !.push = "rebase in progress",
                            !.dirty = HasChanges, !.diff = Staged(disk, head)]

git_push ==
    /\ pc = "Push"
    /\ IF ~flags.push
       THEN /\ Logged("disabled")
            /\ UNCHANGED <<index, head, origin, commits, events>>
       ELSE \E res \in PushOutcomes :
            /\ IF res = "ok" THEN events' = events
               ELSE events < MaxEvents /\ events' = events + 1
            /\ res \in {"add fails", "diff fails", "commit fails", "push fails"}
                  => HasChanges /\ (res # "diff fails" => Renames(disk, head) = {})
            /\ CASE res = "rebase in progress" ->
                      /\ rebase_in_progress
                      /\ UNCHANGED <<index, head, origin, commits>>
                 [] res = "detached HEAD" ->
                      \* git checkout -b HEAD fails: CalledProcessError, logged
                      /\ Logged(res)
                      /\ UNCHANGED <<index, head, origin, commits>>
                 [] res = "status fails" \/ ~HasChanges ->
                      \* nothing printed by git status: "No changes to commit."
                      /\ Logged(IF res = "ok" THEN "no changes" ELSE res)
                      /\ UNCHANGED <<index, head, origin, commits>>
                 [] res = "add fails" ->
                      /\ Logged(res)
                      /\ UNCHANGED <<index, head, origin, commits>>
                 [] res = "diff fails" ->
                      /\ index' = disk
                      /\ Logged(res)
                      /\ UNCHANGED <<head, origin, commits>>
                 [] OTHER ->
                      /\ index' = disk
                      /\ IF Renames(disk, head) # {}
                         THEN \* status, file = line.split("\t"): ValueError
                              /\ pc' = "Exit"
                              /\ exitStatus' = 1
                              /\ hist' = [hist EXCEPT !.exitAt = "Push",
                                                      !.cause = "ValueError",
                                                      !.push = "ValueError",
                                                      !.dirty = HasChanges,
                                                      !.diff = Staged(disk, head)]
                              /\ UNCHANGED <<head, origin, commits>>
                         ELSE LET commit_message ==
                                    generate_commit_message(Changes(disk, head))
                              IN /\ Logged(IF res = "ok" THEN "pushed" ELSE res)
                                 /\ IF res = "commit fails"
                                    THEN UNCHANGED <<head, origin, commits>>
                                    ELSE /\ head' = disk
                                         /\ commits' = Append(commits,
                                              [run |-> run,
                                               message |-> commit_message,
                                               pushed |-> res = "ok"])
                                         /\ origin' = IF res = "ok" THEN disk
                                                      ELSE origin
    /\ UNCHANGED <<flags, remote, disk, dirs, run, scan, todo, current,
                   current_scripts, shell_summary, puts>>

\* the two prints that end main()
report ==
    /\ pc = "Report"
    /\ pc' = "Done"
    /\ exitStatus' = 0
    /\ UNCHANGED <<flags, remote, disk, dirs, origin, head, index, run, scan,
                   todo, current, current_scripts, shell_summary, events, puts,
                   commits, hist>>

\* ------------------------------------------------------------ environment
Ended == pc \in {"Done", "Exit"}

\* the scheduler starts main() again
invoke ==
    /\ Ended
    /\ run < MaxRuns
    /\ run' = run + 1
    /\ pc' = "Pull"
    /\ exitStatus' = 0
    /\ scan' = {}
    /\ todo' = <<>>
    /\ current' = {}
    /\ current_scripts' = {}
    /\ shell_summary' = EmptyDict
    /\ hist' = NewHist(disk, dirs, pc)
    /\ UNCHANGED <<flags, remote, disk, dirs, origin, head, index, events, puts,
                   commits>>

\* between two runs somebody edits a script or snippet file and pushes the
\* edit to origin/master
git_edit ==
    /\ Ended
    /\ run < MaxRuns
    /\ events < MaxEvents
    /\ \E p \in {q \in DOMAIN origin : q[1] \in {"scripts", "snippets"}} :
         /\ origin[p] # [text |-> EditedCode]
         /\ origin' = Put(origin, p, [text |-> EditedCode])
    /\ events' = events + 1
    /\ UNCHANGED <<flags, remote, disk, dirs, head, index, pc, run, scan, todo,
                   current, current_scripts, shell_summary, exitStatus, puts,
                   commits, hist>>

\* between two runs somebody changes the body of a script in the remote store
remote_edit ==
    /\ Ended
    /\ run < MaxRuns
    /\ events < MaxEvents
    /\ \E i \in DOMAIN remote.code :
         /\ remote.code[i] # ChangedCode
         /\ remote' = [remote EXCEPT !.code[i] = ChangedCode]
    /\ events' = events + 1
    /\ UNCHANGED <<flags, disk, dirs, origin, head, index, pc, run, scan, todo,
                   current, current_scripts, shell_summary, exitStatus, puts,
                   commits, hist>>

\* between two runs somebody deletes a script from the remote store
remote_delete ==
    /\ Ended
    /\ run < MaxRuns
    /\ events < MaxEvents
    /\ \E i \in DOMAIN remote.code :
         remote' = [remote EXCEPT
                      !.scripts = SelectSeq(@, LAMBDA r : r.id # i),
                      !.code = [j \in (DOMAIN @) \ {i} |-> @[j]]]
    /\ events' = events + 1
    /\ UNCHANGED <<flags, disk, dirs, origin, head, index, pc, run, scan, todo,
                   current, current_scripts, shell_summary, exitStatus, puts,
                   commits, hist>>

\* between two runs somebody renames a script in the remote store
NewName == <<"r">>
remote_rename ==
    /\ Ended
    /\ run < MaxRuns
    /\ events < MaxEvents
    /\ \E k \in DOMAIN remote.scripts :
         /\ IsUserDefined(remote.scripts[k])
         /\ remote.scripts[k].name # NewName
         /\ remote' = [remote EXCEPT !.scripts[k].name = NewName]
    /\ events' = events + 1
    /\ UNCHANGED <<flags, disk, dirs, origin, head, index, pc, run, scan, todo,
                   current, current_scripts, shell_summary, exitStatus, puts,
                   commits, hist>>

Next ==
    \/ git_pull
    \/ write_modifications_to_api
    \/ reconcile_return
    \/ fetch_scripts
    \/ export_scripts
    \/ scripts_return
    \/ fetch_snippets
    \/ export_snippets
    \/ snippets_return
    \/ delete_obsolete_files
    \/ git_push
    \/ report
    \/ invoke
    \/ git_edit
    \/ remote_edit
    \/ remote_delete
    \/ remote_rename

Spec == Init /\ [][Next]_vars

\* ------------------------------------------------- runs with flags turned off
\* the files an earlier run with the default flags wrote for a list of records
RECURSIVE ExportedTree(_, _, _, _)
ExportedTree(t, recs, script_folder, script_raw_folder) ==
    IF recs = <<>> THEN t
    ELSE LET rec == Head(recs)
             data == IF script_folder = "snippets" THEN rec
                     ELSE Detail(CodeOf(rec.id))
             cat == CategoryFolder(rec)
             file == <<script_folder, cat, EditableName(rec)>>
             raw == <<script_raw_folder, cat, RawFileName(rec)>>
         IN ExportedTree(Put(Put(t, file, [text |-> data.code]),
                             raw, JsonDumps(RawSnapshot(data, rec))),
                         Tail(recs), script_folder, script_raw_folder)

\* the lists of scripts no two of which have the same shape
DistinctLists ==
    {l \in ScriptLists :
        \A i, j \in DOMAIN l :
           (i # j /\ IsUserDefined(l[i]) /\ IsUserDefined(l[j]))
              => Without(l[i], "id") # Without(l[j], "id")}

\* the first run has exported, committed and pushed every record and has
\* ended; some flag has been turned off for the runs that follow
DryInit ==
    /\ flags \in FlagModes \ {Defaults}
    /\ \E l \in DistinctLists :
         /\ remote = [scripts |-> l,
                      code |-> [i \in 1..MaxScripts |-> CodeOf(i)],
                      snippets |-> SnippetList]
         /\ disk = ExportedTree(ExportedTree(EmptyTree, UserDefined(l),
                                             "scripts", "scriptsraw"),
                                SnippetList, "snippets", "snippetsraw")
    /\ dirs = ParentDirs(disk)
    /\ origin = disk
    /\ head = disk
    /\ index = disk
    /\ pc = "Done"
    /\ run = 1
    /\ scan = {}
    /\ todo = <<>>
    /\ current = {}
    /\ current_scripts = {}
    /\ shell_summary = EmptyDict
    /\ exitStatus = 0
    /\ events = 0
    /\ puts = <<>>
    /\ commits = <<>>
    /\ hist = NewHist(disk, dirs, "")

DrySpec == DryInit /\ [][Next]_vars

\* -------------------------------------------------------------- claims
\* the loop of write_modifications_to_api has just ended, one way or another
ReconcileOver == pc = "FetchScripts" \/ (pc = "Exit" /\ hist.exitAt = "Reconcile")
\* delete_obsolete_files has run in this run
Pruned == pc \in {"Push", "Report", "Done"} \/ (pc = "Exit" /\ hist.exitAt = "Push")
\* the pairs whose editable file carries an edit made in git
EditedDrift == {d \in hist.drift : d.text = EditedCode}
\* the PUT requests of this run for one script
PutsFor(id) == {i \in DOMAIN puts : puts[i].run = run /\ puts[i].id = id}

\* C1 (P7, reconciliation direction): when an editable script file differs
\* from the code of its raw snapshot file and writeback is enabled, the run
\* sends exactly one update for that script's id, its payload carries the
\* edited content under script_body and has no code key, and the raw
\* snapshot file is as it was when the Reconcile stage ends.
C1_EditPushedOnce ==
    (flags.writeback /\ ReconcileOver) =>
       \A d \in EditedDrift :
          /\ Cardinality(PutsFor(d.id)) = 1
          /\ \A i \in PutsFor(d.id) :
                /\ HasKey(puts[i].payload, "script_body")
                /\ puts[i].payload.script_body = d.text
                /\ ~HasKey(puts[i].payload, "code")
          /\ d.raw \in DOMAIN disk
          /\ disk[d.raw] = d.snapshot

\* the paths under one root, relative to it
FilesUnder(root) == {RelativeTo(p) : p \in Under(disk, root)}

\* C2 (P4 / I2, pruning exactness): once delete_obsolete_files has run, the
\* files under each of the four roots are exactly the paths recorded for
\* that root by this run's export.
C2_PruneExact ==
    Pruned => \A root \in Roots : FilesUnder(root) = hist.manifest[root]

\* the raw root that goes with an editable root
RawRootOf(kind) == IF kind = "scripts" THEN "scriptsraw" ELSE "snippetsraw"
\* where the naming rules put the two files of a record
EditablePathOf(kind, rec) == <<kind, CategoryFolder(rec), EditableName(rec)>>
RawPathOf(kind, rec) == <<RawRootOf(kind), CategoryFolder(rec), RawFileName(rec)>>
\* the records the two list calls of this run returned: <<kind, record>>
ListedRecords ==
    {<<"scripts", hist.listed.scripts[i]>> : i \in DOMAIN hist.listed.scripts}
      \cup {<<"snippets", hist.listed.snippets[i]>> : i \in DOMAIN hist.listed.snippets}
\* those of them that were exported
ExportedListed == {l \in ListedRecords : \E e \in hist.exported : e[1] = l[1] /\ e[2] = l[2]}
HasBothFiles(l) ==
    /\ EditablePathOf(l[1], l[2]) \in DOMAIN disk
    /\ RawPathOf(l[1], l[2]) \in DOMAIN disk
    /\ RelativeTo(EditablePathOf(l[1], l[2])) \in current_scripts
    /\ RelativeTo(RawPathOf(l[1], l[2])) \in current_scripts
    /\ RelativeTo(EditablePathOf(l[1], l[2])) \in hist.manifest[l[1]]
    /\ RelativeTo(RawPathOf(l[1], l[2])) \in hist.manifest[RawRootOf(l[1])]
SharesAFile(l, m) ==
    \/ EditablePathOf(l[1], l[2]) = EditablePathOf(m[1], m[2])
    \/ RawPathOf(l[1], l[2]) = RawPathOf(m[1], m[2])

\* C3 as claimed (P1 / I1, export completeness): after both exports every
\* record returned by the list calls has its editable file and its raw
\* snapshot file at the paths of the naming rules, both paths are in the
\* manifest, and no two records share a file.
C3_EveryListedExportedApart ==
    pc = "Prune" =>
       /\ \A l \in ListedRecords : HasBothFiles(l)
       /\ \A l, m \in ListedRecords : l # m => ~SharesAFile(l, m)

\* C3 as amended: after both exports every record returned by the list calls
\* was either skipped, which happens to scripts only and only when the
\* detail request failed, or has its editable file and its raw snapshot file
\* at the paths of the naming rules with both paths in the manifest; records
\* with different ids never share a raw snapshot file, while records of one
\* kind share their editable file exactly when sanitized name, category
\* folder and extension coincide.
C3_ExportedHaveFiles ==
    pc = "Prune" =>
       /\ \A l \in ListedRecords :
            \/ HasBothFiles(l) /\ l \in ExportedListed
            \/ /\ <<l[1], l[2]>> \in hist.skipped
               /\ l[1] = "scripts"
               /\ events > 0
       /\ \A l, m \in ExportedListed :
            /\ (RawPathOf(l[1], l[2]) = RawPathOf(m[1], m[2]) /\ l[1] = m[1])
                 => SidStr(l[2]) = SidStr(m[2])
            /\ (l[1] = m[1]) =>
                 ((EditablePathOf(l[1], l[2]) = EditablePathOf(m[1], m[2]))
                    <=> /\ SanitizedName(l[2]) = SanitizedName(m[2])
                        /\ CategoryFolder(l[2]) = CategoryFolder(m[2])
                        /\ ExtOf(Get(l[2], "shell", None))
                             = ExtOf(Get(m[2], "shell", None)))

\* two scripts were exported into one editable file
C3_Witness ==
    /\ pc = "Prune"
    /\ \E l, m \in ExportedListed :
         /\ l # m
         /\ l[1] = "scripts" /\ m[1] = "scripts"
         /\ EditablePathOf(l[1], l[2]) = EditablePathOf(m[1], m[2])
         /\ HasBothFiles(l) /\ HasBothFiles(m)
\* the position of a record in the list its list call returned
ListedAt(kind, rec) ==
    CHOOSE i \in DOMAIN hist.listed[kind] : hist.listed[kind][i] = rec
\* a record exported later in the same pass wrote the same editable file
Overwritten(e) ==
    \E f \in hist.exported :
       /\ f[1] = e[1]
       /\ ListedAt(f[1], f[2]) > ListedAt(e[1], e[2])
       /\ EditablePathOf(f[1], f[2]) = EditablePathOf(e[1], e[2])
\* the two digests write_modifications_to_api would compare for a record
EditableDigest(e) == Sha256(disk[EditablePathOf(e[1], e[2])].text)
SnapshotDigest(e) ==
    Sha256(Get(JsonLoad(disk[RawPathOf(e[1], e[2])]), "code", <<>>))
\* an export pass has just returned
ExportJustOver == pc \in {"FetchSnippets", "Prune"}

\* C5 as claimed (P3, hash agreement post-export): right after an export the
\* digest of every exported record's editable file equals the digest of the
\* code field of its raw snapshot file, whatever the detail payload and the
\* summary record hold.
C5_DigestsAgreeAlways ==
    ExportJustOver => \A e \in hist.exported : EditableDigest(e) = SnapshotDigest(e)

\* C5 as amended: right after an export the two digests agree for every
\* exported record whose summary record carries no code other than the
\* detail payload's and whose editable file was not written again for a
\* record exported later in the same pass.
C5_DigestsAgree ==
    ExportJustOver =>
       \A e \in hist.exported :
          (Get(e[2], "code", e[3].code) = e[3].code /\ ~Overwritten(e))
             => /\ EditablePathOf(e[1], e[2]) \in DOMAIN disk
                /\ RawPathOf(e[1], e[2]) \in DOMAIN disk
                /\ EditableDigest(e) = SnapshotDigest(e)

\* a script and a snippet were exported and their digests agree
C5_Witness ==
    /\ pc = "Prune"
    /\ \E e, f \in hist.exported :
         /\ e[1] = "scripts" /\ f[1] = "snippets"
         /\ ~Overwritten(e)
         /\ ~HasKey(e[2], "code")
         /\ EditableDigest(e) = SnapshotDigest(e)
         /\ EditableDigest(f) = SnapshotDigest(f)
\* this run follows a complete run, and nothing has failed or been changed
QuietRerun == run >= 2 /\ hist.prev = "Done" /\ events = 0
CommitsOfRun == {i \in DOMAIN commits : commits[i].run = run}
PutsOfRun == {i \in DOMAIN puts : puts[i].run = run}

\* C4 (P6, idempotence): a run that follows a complete run, with the remote
\* store unchanged and no edit in between, calls update_api for no script,
\* changes the content of no file, creates and deletes no file, makes no
\* commit and leaves nothing staged, and it runs to its end.
C4_SecondRunIdle ==
    QuietRerun =>
       /\ pc # "Exit"
       /\ hist.calls = <<>>
       /\ PutsOfRun = {}
       /\ disk = hist.start
       /\ hist.deleted = {}
       /\ CommitsOfRun = {}
       /\ index = head

\* C6 (local edits win for one run): when the Reconcile stage found an
\* edited script file, writeback is enabled and no update request failed,
\* then once the run has ended the remote code of that script and the
\* editable file both equal the edited content.
C6_EditWins ==
    (Ended /\ flags.writeback
       /\ \A i \in PutsOfRun : puts[i].result = "200") =>
       \A d \in EditedDrift :
          /\ d.id \in DOMAIN remote.code => remote.code[d.id] = d.text
          /\ d.file \in DOMAIN disk /\ disk[d.file].text = d.text
          /\ pc = "Done"

\* C8 (gateway degradation): a failed list or detail request never ends the
\* run; the run goes on with an empty result.
C8_FetchNeverRaises ==
    ~(pc = "Exit" /\ hist.cause = "ConnectionError")

\* C9 (writeback failure isolation): a failing push never ends the run in
\* the Reconcile stage, and when that stage is over every pair found to
\* differ has had its own update_api call.
C9_PushFailureIsolated ==
    flags.writeback =>
       /\ ~(pc = "Exit" /\ hist.exitAt = "Reconcile")
       /\ pc = "FetchScripts" =>
            \A d \in hist.drift :
               \E i \in DOMAIN hist.calls : hist.calls[i][1] = d.id
\* the stages of a run in the order main() goes through them
StageRank(stage) ==
    CASE stage = "Pull" -> 1 [] stage = "Reconcile" -> 2
      [] stage = "FetchScripts" -> 3 [] stage = "ExportScripts" -> 4
      [] stage = "FetchSnippets" -> 5 [] stage = "ExportSnippets" -> 6
      [] stage = "Prune" -> 7 [] stage = "Push" -> 8 [] stage = "Report" -> 9
      [] stage = "Done" -> 10 [] OTHER -> 11
\* one step of a run keeps the order of the stages
StepInOrder ==
    /\ (run' = run /\ pc' # pc) =>
          \/ StageRank(pc') = StageRank(pc) + 1
          \/ pc' = "Exit" /\ pc \notin {"Report", "Done"}
    /\ (run' # run) => (run' = run + 1 /\ pc' = "Pull" /\ Ended)
\* a failing git_pull ends the process at once, with nothing done
PullFailureEnds ==
    (pc = "Pull" /\ events' > events) =>
       /\ pc' = "Exit"
       /\ exitStatus' = 1
       /\ disk' = disk /\ dirs' = dirs
       /\ puts' = puts /\ commits' = commits /\ remote' = remote
       /\ hist'.calls = <<>> /\ hist'.deleted = {}
\* a process that has ended does nothing more
ExitIsFinal ==
    (pc = "Exit" /\ run' = run) =>
       /\ pc' = "Exit"
       /\ exitStatus' = exitStatus
       /\ disk' = disk /\ dirs' = dirs
       /\ puts' = puts /\ commits' = commits

\* C7 (orchestrator ordering): within a run the stages follow one another in
\* the order Pull, Reconcile, FetchScripts, ExportScripts, FetchSnippets,
\* ExportSnippets, Prune, Push, Report, none is entered twice or re-entered
\* from a later one, and a failing Pull ends the process with a non-zero
\* status before any update call, file write, deletion or commit.
C7_StagesInOrder == [][StepInOrder /\ PullFailureEnds /\ ExitIsFinal]_vars

\* a later run found files in place and its git_pull failed
C7_Witness ==
    /\ pc = "Exit" /\ hist.exitAt = "Pull" /\ exitStatus = 1
    /\ run >= 2
    /\ DOMAIN disk # {}

FailingGitCommands == {"detached HEAD", "status fails", "add fails",
                       "diff fails", "commit fails", "push fails"}

\* C10 (push-stage failures): a rebase in progress ends the run in the Push
\* stage with a non-zero status, without a commit, and with the files as
\* Export and Prune left them; any other failing git command of the stage
\* leaves the run to go on to Report and to end with status 0.
C10_PushFailures ==
    /\ hist.push = "rebase in progress" =>
          /\ pc = "Exit" /\ hist.exitAt = "Push" /\ exitStatus # 0
          /\ CommitsOfRun = {}
          /\ disk = hist.pruned
    /\ hist.push \in FailingGitCommands =>
          /\ pc \in {"Report", "Done"}
          /\ exitStatus = 0
          /\ disk = hist.pruned

\* a rebase in progress stopped a run that had exported files to commit
C10_Witness ==
    /\ pc = "Exit" /\ hist.push = "rebase in progress"
    /\ DOMAIN disk # {}
    /\ disk # head
\* the staged paths that lie outside the raw snapshot roots
RawRoots == {"scriptsraw", "snippetsraw"}
NonRaw(ps) == {p \in ps : p[1] \notin RawRoots}
NonRawRenames(rs) == {r \in rs : r[1][1] \notin RawRoots /\ r[2][1] \notin RawRoots}
\* a rename as the message is to show it
RenameText(r) == PathText(r[1]) \o <<" ", "-", ">", " ">> \o PathText(r[2])
RenameTexts(rs) ==
    LET olds == SortedPaths({r[1] : r \in rs})
    IN [i \in DOMAIN olds |-> RenameText(CHOOSE r \in rs : r[1] = olds[i])]
\* the four categories of the staged changes, raw paths left out, a renamed
\* file counted as renamed only
Categories(diff) ==
    << <<"created", Texts(SortedPaths(NonRaw(diff.A \ {r[2] : r \in diff.R})))>>,
       <<"modified", Texts(SortedPaths(NonRaw(diff.M)))>>,
       <<"deleted", Texts(SortedPaths(NonRaw(diff.D \ {r[1] : r \in diff.R})))>>,
       <<"renamed", RenameTexts(NonRawRenames(diff.R))>> >>
\* "<category> <count>: <first five paths joined by ', '>" and "..." after
\* more than five
SpecifiedClause(c) ==
    <<c[1], " ">> \o IntStr(Len(c[2])) \o <<":", " ">>
      \o JoinWith(SubSeq(c[2], 1, IF Len(c[2]) > 5 THEN 5 ELSE Len(c[2])), <<",", " ">>)
      \o (IF Len(c[2]) > 5 THEN <<".", ".", ".">> ELSE <<>>)
SpecifiedMessage(diff) ==
    LET filled == SelectSeq(Categories(diff), LAMBDA c : c[2] # <<>>)
    IN IF filled = <<>> THEN <<"Minor update">>
       ELSE JoinWith([i \in DOMAIN filled |-> SpecifiedClause(filled[i])], <<";", " ">>)

\* C11 (P5, commit message): the message of a commit is "Minor update" when
\* no path outside the raw snapshot roots is staged, and otherwise one clause
\* per category that has paths, in the order created, modified, deleted,
\* renamed, each "<category> <count>: <up to 5 paths>" with "..." after more
\* than 5, the clauses joined by "; ".
C11_MessageAsSpecified ==
    \A i \in CommitsOfRun : commits[i].message = SpecifiedMessage(hist.diff)

\* git_push ran with every git command succeeding
PushRanClean == flags.push /\ hist.push \in {"pushed", "no changes", "ValueError"}
AllStaged(diff) == diff.A \cup diff.M \cup diff.D

\* C13 (commit only on change): when git_push ran and no git command failed,
\* a working tree without changes gives no commit, and a working tree with
\* changes gives exactly one commit, pushed, whose message is the generic one
\* when only raw snapshot files changed.
C13_CommitOnlyOnChange ==
    PushRanClean =>
       IF ~hist.dirty THEN CommitsOfRun = {}
       ELSE /\ Cardinality(CommitsOfRun) = 1
            /\ \A i \in CommitsOfRun :
                  /\ commits[i].pushed
                  /\ NonRaw(AllStaged(hist.diff)) = {}
                        => commits[i].message = <<"Minor update">>

\* C15 (raw paths are never summarized): no path under scriptsraw/ or
\* snippetsraw/ appears in a commit message, and a commit whose staged
\* changes all lie under those roots has the message "Minor update".
C15_RawNeverSummarized ==
    \A i \in CommitsOfRun :
       /\ \A k \in DOMAIN commits[i].message : commits[i].message[k] \notin RawRoots
       /\ NonRaw(AllStaged(hist.diff)) = {} => commits[i].message = <<"Minor update">>

Contains(text, part) ==
    \E k \in 1..(Len(text) - Len(part) + 1) : SubSeq(text, k, k + Len(part) - 1) = part

\* C16 (rename classification): when a rename outside the raw snapshot roots
\* is staged and no git command fails, git_push makes and pushes one commit
\* whose message has a "renamed" clause showing the rename as "old -> new".
C16_RenameCommitted ==
    (PushRanClean /\ NonRawRenames(hist.diff.R) # {}) =>
       /\ Cardinality(CommitsOfRun) = 1
       /\ \A i \in CommitsOfRun :
             /\ commits[i].pushed
             /\ Contains(commits[i].message, <<"renamed", " ">>)
             /\ \A r \in NonRawRenames(hist.diff.R) :
                   Contains(commits[i].message, RenameText(r))
\* C12 (dry flags write nothing): a complete run with every flag turned off
\* sends no update to the API and leaves the files and the folders under the
\* four roots as they were when it started.
C12_DryRunChangesNothing ==
    (flags = Dry /\ pc = "Done") =>
       /\ PutsOfRun = {}
       /\ hist.calls = <<>>
       /\ disk = hist.start
       /\ dirs = hist.folders
ExportStages == {"ExportScripts", "ExportSnippets"}
\* the two paths of every record exported so far are in the sets of paths
\* that process_scripts and main keep
Recorded ==
    \A e \in hist.exported :
       /\ RelativeTo(EditablePathOf(e[1], e[2])) \in current \cup current_scripts
       /\ RelativeTo(RawPathOf(e[1], e[2])) \in current \cup current_scripts
       /\ RelativeTo(EditablePathOf(e[1], e[2])) \in hist.manifest[e[1]]
       /\ RelativeTo(RawPathOf(e[1], e[2])) \in hist.manifest[RawRootOf(e[1])]
\* delete_obsolete_files leaves every file at a path of an exported record
PruneSpares ==
    \A e \in hist.exported :
       \A p \in {EditablePathOf(e[1], e[2]), RawPathOf(e[1], e[2])} :
          /\ p \notin hist'.deleted
          /\ p \in DOMAIN disk => (p \in DOMAIN disk' /\ disk'[p] = disk[p])

\* C19 (dry-run manifest): with ENABLE_WRITETOFILE off the export stages
\* change no file, they still record the editable and the raw path of every
\* record they process, and delete_obsolete_files then deletes no file at
\* such a path.
C19_DryExportRecords ==
    [][~flags.writetofile =>
          /\ pc \in ExportStages => (disk' = disk /\ Recorded')
          /\ pc = "Prune" => (Recorded /\ PruneSpares)]_vars

\* a run that wrote no file has pruned the files of a record that is gone
\* and kept those of the records it processed
C19_Witness ==
    /\ ~flags.writetofile
    /\ pc = "Push"
    /\ hist.deleted # {}
    /\ \E e \in hist.exported :
          /\ e[1] = "scripts"
          /\ EditablePathOf(e[1], e[2]) \in DOMAIN disk
          /\ RawPathOf(e[1], e[2]) \in DOMAIN disk
\* the extension the table of the specification gives for a record
SpecifiedExt(rec) ==
    IF ~HasKey(rec, "shell") THEN <<".", "t", "x", "t">>
    ELSE IF rec.shell = "powershell" THEN <<".", "p", "s", "1">>
    ELSE IF rec.shell = "python" THEN <<".", "p", "y">>
    ELSE IF rec.shell = "cmd" THEN <<".", "b", "a", "t">>
    ELSE IF rec.shell = "shell" THEN <<".", "s", "h">>
    ELSE IF rec.shell = "nushell" THEN <<".", "n", "u">>
    ELSE <<".", "t", "x", "t">>
\* the editable file of a record, named by that table
SpecifiedEditable(kind, rec) ==
    <<kind, CategoryFolder(rec), SanitizedName(rec) \o SpecifiedExt(rec)>>

\* C14 (P2, extension correctness): every exported script and snippet has
\* its editable file under the name sanitized name + extension, the
\* extension being .ps1, .py, .bat, .sh or .nu for the shells powershell,
\* python, cmd, shell and nushell, and .txt for any other or missing shell.
C14_ExtensionByShell ==
    \A e \in hist.exported :
       /\ SpecifiedEditable(e[1], e[2]) \in DOMAIN disk
       /\ RelativeTo(SpecifiedEditable(e[1], e[2])) \in hist.manifest[e[1]]
       /\ \A p \in Under(disk, e[1]) :
             (p[2] = CategoryFolder(e[2]) /\ Stem(p[3]) = SanitizedName(e[2])
                /\ RelativeTo(p) \in current \cup current_scripts
                /\ \A f \in hist.exported :
                      (f[1] = e[1] /\ SanitizedName(f[2]) = SanitizedName(e[2])
                         /\ CategoryFolder(f[2]) = CategoryFolder(e[2])) => f = e)
               => p = SpecifiedEditable(e[1], e[2])

\* a cmd script, a script without a shell, a nushell snippet and a snippet
\* of another shell have been exported
C14_Witness ==
    /\ pc = "Prune"
    /\ \E e, f, g, h \in hist.exported :
          /\ e[1] = "scripts" /\ HasKey(e[2], "shell") /\ e[2].shell = "cmd"
          /\ f[1] = "scripts" /\ ~HasKey(f[2], "shell")
          /\ g[1] = "snippets" /\ g[2].shell = "nushell"
          /\ h[1] = "snippets" /\ h[2].shell = "zsh"
          /\ \A x \in {e, f, g, h} : SpecifiedEditable(x[1], x[2]) \in DOMAIN disk
\* the raw snapshot file of a record as the naming rule puts it, with or
\* without the "<id> - " in front of the name
SpecifiedFolder(rec) ==
    IF HasKey(rec, "category") /\ rec.category # <<>>
    THEN sanitize_filename(Strip(rec.category)) ELSE <<>>
SpecifiedRaw(kind, rec, with_id) ==
    <<RawRootOf(kind), SpecifiedFolder(rec),
      (IF with_id THEN SidStr(rec) \o <<" ", "-", " ">> ELSE <<>>)
         \o SanitizedName(rec) \o <<".", "j", "s", "o", "n">>>>

\* C17 as claimed (raw snapshot naming): the raw snapshot file of an exported
\* script is "<id> - <sanitized name>.json", that of an exported snippet is
\* "<sanitized name>.json" without an id, each under the category folder.
C17_SnippetRawWithoutId ==
    \A e \in hist.exported :
       /\ SpecifiedRaw(e[1], e[2], e[1] = "scripts") \in DOMAIN disk
       /\ e[1] = "snippets" => SpecifiedRaw(e[1], e[2], TRUE) \notin DOMAIN disk

\* C17 as amended: the raw snapshot file of every exported record, script or
\* snippet, is "<id> - <sanitized name>.json" under the category folder, and
\* the export records no raw path without the id.
C17_RawNamedWithId ==
    \A e \in hist.exported :
       /\ SpecifiedRaw(e[1], e[2], TRUE) \in DOMAIN disk
       /\ RelativeTo(SpecifiedRaw(e[1], e[2], TRUE)) \in hist.manifest[RawRootOf(e[1])]
       /\ RelativeTo(SpecifiedRaw(e[1], e[2], FALSE)) \notin hist.manifest[RawRootOf(e[1])]

\* a snippet and a script with a category have their raw snapshot files
C17_Witness ==
    /\ pc = "Prune"
    /\ \E e, f \in hist.exported :
          /\ e[1] = "snippets" /\ SpecifiedRaw(e[1], e[2], TRUE) \in DOMAIN disk
          /\ f[1] = "scripts" /\ SpecifiedFolder(f[2]) # <<>>
          /\ SpecifiedRaw(f[1], f[2], TRUE) \in DOMAIN disk
\* the names the Mapper compares: the stems of the files under scripts/ and
\* the names of the records in the raw snapshot files under scriptsraw/,
\* lower-cased
EditableStems(t) == {<<p, ToLower(Stem(p[3]))>> : p \in Under(t, "scripts")}
SnapshotNames(t) ==
    {<<r, ToLower(SanitizedName(JsonLoad(t[r])))>> : r \in RawJsonFiles(t)}
NoCollision(t) ==
    /\ \A x, y \in EditableStems(t) : x[2] = y[2] => x[1] = y[1]
    /\ \A x, y \in SnapshotNames(t) : x[2] = y[2] => x[1] = y[1]
\* the editable file the export wrote for the record of a raw snapshot file
OwnEditable(snapshot) ==
    <<"scripts", CategoryFolder(JsonLoad(snapshot)), EditableName(JsonLoad(snapshot))>>
Reconciling == pc = "Reconcile" \/ ReconcileOver

\* C18 (I3, pairing): as long as no two names in the scan are equal up to
\* case, every raw snapshot file under scriptsraw/ is paired with the
\* editable file of its own record and with no other, and every update_api
\* call carries the content of the file of the script it is addressed to.
C18_PairsOwnFile ==
    (Reconciling /\ NoCollision(disk)) =>
       /\ \A r \in RawJsonFiles(disk) :
             /\ Matches(disk, r) \subseteq {OwnEditable(disk[r])}
             /\ OwnEditable(disk[r]) \in DOMAIN disk
                   => Matches(disk, r) = {OwnEditable(disk[r])}
       /\ \A d \in hist.drift :
             /\ d.file = OwnEditable(d.snapshot)
             /\ d.id = JsonLoad(d.snapshot).id
       /\ \A i \in DOMAIN hist.calls :
             \E d \in hist.drift :
                /\ hist.calls[i][1] = d.id
                /\ hist.calls[i][2].code = disk[OwnEditable(d.snapshot)].text

\* a script with a capital letter in its name was edited in git and paired
\* with its own raw snapshot file, next to another script
C18_Witness ==
    /\ ReconcileOver
    /\ NoCollision(disk)
    /\ Cardinality(RawJsonFiles(disk)) >= 2
    /\ \E d \in hist.drift :
          /\ d.text = EditedCode
          /\ d.file = OwnEditable(d.snapshot)
          /\ d.file[3] # ToLower(d.file[3])
          /\ \E i \in DOMAIN hist.calls : hist.calls[i][1] = d.id
\* the export of the snippets is over
SnippetsExported == pc \in {"Prune", "Push", "Report", "Done"}

\* C20 (snippet edits are never written back): the Reconcile stage compares
\* only files under scriptsraw/ with files under scripts/, so no update_api
\* call carries the content of a snippet file, and once the snippets are
\* exported the editable file of every exported snippet holds the code the
\* remote store has for it, whatever was in the file before.
C20_SnippetEditsDropped ==
    /\ \A d \in hist.drift : d.raw[1] = "scriptsraw" /\ d.file[1] = "scripts"
    /\ \A i \in DOMAIN hist.calls :
          \E d \in hist.drift :
             hist.calls[i][1] = d.id /\ hist.calls[i][2].code = d.text
    /\ \A i \in PutsOfRun :
          \E d \in hist.drift :
             puts[i].id = d.id /\ puts[i].payload.script_body = d.text
    /\ SnippetsExported =>
          \A e \in hist.exported :
             (e[1] = "snippets" /\ ~Overwritten(e)) =>
                /\ EditablePathOf(e[1], e[2]) \in DOMAIN disk
                /\ disk[EditablePathOf(e[1], e[2])].text = e[2].code

\* a snippet file edited in git was pulled, caused no update_api call and
\* has been written again from the remote store
C20_Witness ==
    /\ pc = "Prune"
    /\ flags.pull
    /\ hist.calls = <<>>
    /\ \E e \in hist.exported :
          /\ e[1] = "snippets"
          /\ EditablePathOf(e[1], e[2]) \in DOMAIN origin
          /\ origin[EditablePathOf(e[1], e[2])].text = EditedCode
          /\ disk[EditablePathOf(e[1], e[2])].text = e[2].code
====
